---- MODULE Spec2Model ----
(***************************************************************************)
(* Model of vae.py: a variational auto-encoder trained with Adam on the    *)
(* ELBO, followed by prior sampling, reconstruction and latent             *)
(* interpolation.                                                          *)
(*                                                                         *)
(* Real numbers are fixed-point integers: the integer x stands for the     *)
(* real x / Scale.  A vector is a sequence of such integers, a matrix a    *)
(* sequence of rows.  Products and quotients round to the nearest unit.    *)
(***************************************************************************)
EXTENDS Integers, Sequences, FiniteSets, TLC

\* ------------------------------------------------------------------------
\* Fixed-point arithmetic
\* ------------------------------------------------------------------------

Scale == 10 ^ 4

\* Body applied to the value of e: e is evaluated once, whatever Body does
\* with it
Let(e, Body(_)) == CHOOSE r \in {Body(x) : x \in {e}} : TRUE

Let2(e1, e2, Body(_, _)) == CHOOSE r \in {Body(x, y) : x \in {e1}, y \in {e2}} : TRUE

\* [k \in 1..n |-> e] as a tuple: every element is evaluated once, here
Vec(f) == f \o <<>>

\* num / den rounded to the nearest integer, den > 0
RDiv(num, den) ==
    Let2(num, den, LAMBDA a, b :
        IF a >= 0 THEN (2 * a + b) \div (2 * b)
                  ELSE -((2 * (-a) + b) \div (2 * b)))

Mul(a, b) == RDiv(a * b, Scale)

Div(num, den) ==
    Let2(num, den, LAMBDA a, b :
        IF b > 0 THEN RDiv(a * Scale, b) ELSE -RDiv(a * Scale, -b))

RECURSIVE SumTo(_, _)
SumTo(s, n) == IF n = 0 THEN 0 ELSE SumTo(s, n - 1) + s[n]

SumSeq(seq) == Let(seq, LAMBDA s : SumTo(s, Len(s)))

\* np.exp: Taylor series for x >= 0, reciprocal for x < 0
RECURSIVE ExpTerms(_, _, _)
ExpTerms(x, n, term) ==
    IF term = 0 THEN 0
    ELSE term + Let(RDiv(term * x, n * Scale), LAMBDA next : ExpTerms(x, n + 1, next))

Exp(arg) ==
    Let(arg, LAMBDA x :
        IF x >= 0 THEN ExpTerms(x, 1, Scale)
                  ELSE RDiv(Scale * Scale, ExpTerms(-x, 1, Scale)))

\* np.log: ln(x) = 2 atanh((x-1)/(x+1)) after scaling x into (1/2, 1];
\* np.log(0) is -inf
Ln2 == 6931
NegInf == -(10 ^ 9)

RECURSIVE AtanhTerms(_, _, _)
AtanhTerms(y, k, pow) ==
    IF pow = 0 THEN 0
    ELSE RDiv(pow, k)
         + Let(Mul(Mul(pow, y), y), LAMBDA next : AtanhTerms(y, k + 2, next))

RECURSIVE Log(_)
Log(arg) ==
    Let(arg, LAMBDA x :
        IF x <= 0 THEN NegInf
        ELSE IF x > Scale THEN Ln2 + Log(RDiv(x, 2))
        ELSE IF 2 * x <= Scale THEN Log(2 * x) - Ln2
        ELSE Let(Div(x - Scale, x + Scale), LAMBDA y : 2 * AtanhTerms(y, 1, y)))

\* A square (of a gradient) is kept to twice the digits, in units of
\* 1 / Scale ^ 2: c * x for such an x >= 0, and x / den
MulWide(c, x) == Let(x, LAMBDA w : (w \div Scale) * c + RDiv((w % Scale) * c, Scale))

DivWide(x, den) ==
    Let2(x, den, LAMBDA w, d : (w \div d) * Scale + RDiv((w % d) * Scale, d))

\* np.sqrt of a square x: the largest r with r * r <= x
RECURSIVE SqrtSearch(_, _, _)
SqrtSearch(n, lo, hi) ==
    IF lo >= hi THEN lo
    ELSE Let((lo + hi + 1) \div 2, LAMBDA mid :
             IF mid * mid <= n THEN SqrtSearch(n, mid, hi)
                               ELSE SqrtSearch(n, lo, mid - 1))

Sqrt(x) == Let(x, LAMBDA n : SqrtSearch(n, 0, 4 * Scale))

\* ------------------------------------------------------------------------
\* Activations and the feed-forward network
\* ------------------------------------------------------------------------

sigmoid(x) == RDiv(Scale * Scale, Scale + Exp(-x))

relu(x) == IF x > 0 THEN x ELSE 0

MapMat(Op(_), mat) ==
    Let(mat, LAMBDA A :
        Vec([i \in 1..Len(A) |-> Vec([j \in 1..Len(A[i]) |-> Op(A[i][j])])]))

\* np.dot(inputs, W) + b for an N x K matrix, a K x M matrix and an M-vector
Affine(inputs, W, b) ==
    Vec([i \in 1..Len(inputs) |->
        Vec([j \in 1..Len(b) |->
            SumSeq(Vec([k \in 1..Len(W) |-> Mul(inputs[i][k], W[k][j])])) + b[j]])])

\* the loop over params[:-1]
RECURSIVE HiddenLayers(_, _)
HiddenLayers(layers, inputs) ==
    IF layers = <<>> THEN inputs
    ELSE Let(Affine(inputs, Head(layers)[1], Head(layers)[2]), LAMBDA outputs :
         Let(MapMat(relu, outputs), LAMBDA activations :
             HiddenLayers(Tail(layers), activations)))

\* the output layer passed through relu like the others
neural_net_predict_relu_all(params, inputs) == HiddenLayers(params, inputs)

neural_net_predict(params, inputs) ==
    Let(HiddenLayers(SubSeq(params, 1, Len(params) - 1), inputs), LAMBDA hidden :
        Affine(hidden, params[Len(params)][1], params[Len(params)][2]))

\* ------------------------------------------------------------------------
\* The seeded global random stream (npr.seed(0)): draw number k of the
\* stream is a fixed value, and every draw advances the stream by one
\* ------------------------------------------------------------------------

Randn(k) == (((k * 7 + 3) % 5) - 2) * (Scale \div 2) + Scale \div 4

Uniform(k) == (k * 3889 + 2500) % Scale

\* npr.randn(rows, cols) drawn from stream position pos, row-major
RandnMat(rows, cols, pos) ==
    Vec([i \in 1..rows |-> Vec([j \in 1..cols |-> Randn(pos + (i - 1) * cols + (j - 1))])])

\* ------------------------------------------------------------------------
\* Parameters: initialisation, flatten and unflatten
\* ------------------------------------------------------------------------

LayerSize(m, n) == m * n + n

RECURSIVE NetSize(_)
NetSize(layer_sizes) ==
    IF Len(layer_sizes) < 2 THEN 0
    ELSE LayerSize(layer_sizes[1], layer_sizes[2]) + NetSize(Tail(layer_sizes))

RECURSIVE init_net_params(_, _, _)
init_net_params(layer_sizes, scale, pos) ==
    IF Len(layer_sizes) < 2 THEN <<>>
    ELSE LET m == layer_sizes[1]
             n == layer_sizes[2]
             W == MapMat(LAMBDA r : Mul(scale, r), RandnMat(m, n, pos))
             b == Vec([j \in 1..n |-> Mul(scale, Randn(pos + m * n + (j - 1)))])
         IN <<<<W, b>>>> \o init_net_params(Tail(layer_sizes), scale, pos + LayerSize(m, n))

RECURSIVE Ravel(_)
Ravel(A) == IF A = <<>> THEN <<>> ELSE Head(A) \o Ravel(Tail(A))

RECURSIVE FlattenNet(_)
FlattenNet(params) ==
    IF params = <<>> THEN <<>>
    ELSE Ravel(Head(params)[1]) \o Head(params)[2] \o FlattenNet(Tail(params))

flatten(combined_params) == FlattenNet(combined_params[1]) \o FlattenNet(combined_params[2])

RECURSIVE UnflattenNet(_, _, _)
UnflattenNet(layer_sizes, vec, pos) ==
    IF Len(layer_sizes) < 2 THEN <<>>
    ELSE LET m == layer_sizes[1]
             n == layer_sizes[2]
             W == Vec([i \in 1..m |-> Vec([j \in 1..n |-> vec[pos + (i - 1) * n + j]])])
             b == Vec([j \in 1..n |-> vec[pos + m * n + j]])
         IN <<<<W, b>>>> \o UnflattenNet(Tail(layer_sizes), vec, pos + LayerSize(m, n))

\* ------------------------------------------------------------------------
\* The terms of the lower bound
\* ------------------------------------------------------------------------

Cols(A, from, to) == Vec([i \in 1..Len(A) |-> SubSeq(A[i], from, to)])

RowSums(mat) == Let(mat, LAMBDA A : Vec([i \in 1..Len(A) |-> SumSeq(A[i])]))

\* the reparametrization trick; the noise is npr.randn(*mean.shape) at pos
sample_latent_variables_from_posterior(encoder_output, pos) ==
    LET D == Len(encoder_output[1]) \div 2
        mean == Cols(encoder_output, 1, D)
        log_std == Cols(encoder_output, D + 1, Len(encoder_output[1]))
        noise == RandnMat(Len(mean), D, pos)
    IN Vec([i \in 1..Len(mean) |->
           Vec([j \in 1..D |-> mean[i][j] + Mul(Exp(log_std[i][j]), noise[i][j])])])

bernoulli_log_prob(targets, logits) ==
    Let(MapMat(sigmoid, logits), LAMBDA sig_logits :
        RowSums(Vec([i \in 1..Len(targets) |->
                    Vec([j \in 1..Len(targets[i]) |->
                        Log(Mul(targets[i][j], sig_logits[i][j])
                            + Mul(Scale - targets[i][j], Scale - sig_logits[i][j]))])])))

\* the two halves of the encoder output read the other way round
compute_KL_swapped(q_means_and_log_stds) ==
    LET D == Len(q_means_and_log_stds[1]) \div 2
        log_std == Cols(q_means_and_log_stds, 1, D)
        mean == Cols(q_means_and_log_stds, D + 1, Len(q_means_and_log_stds[1]))
    IN Let(MapMat(LAMBDA l : Exp(l * 2), log_std), LAMBDA variance :
           Vec([i \in 1..Len(mean) |->
               Mul(Scale \div 2,
                   SumSeq(Vec([j \in 1..D |->
                       variance[i][j] + Mul(mean[i][j], mean[i][j]) - Scale
                           - 2 * log_std[i][j]])))]))

compute_KL(q_means_and_log_stds) ==
    LET D == Len(q_means_and_log_stds[1]) \div 2
        mean == Cols(q_means_and_log_stds, 1, D)
        log_std == Cols(q_means_and_log_stds, D + 1, Len(q_means_and_log_stds[1]))
    IN Let(MapMat(LAMBDA l : Exp(l * 2), log_std), LAMBDA variance :
           Vec([i \in 1..Len(mean) |->
               Mul(Scale \div 2,
                   SumSeq(Vec([j \in 1..D |->
                       variance[i][j] + Mul(mean[i][j], mean[i][j]) - Scale
                           - 2 * log_std[i][j]])))]))

\* np.mean of a vector
Mean(s) == RDiv(SumSeq(s), Len(s))

vae_lower_bound(gen_params, rec_params, data, pos) ==
    Let(neural_net_predict(rec_params, data), LAMBDA encoder_output :
    Let(sample_latent_variables_from_posterior(encoder_output, pos),
        LAMBDA sampled_latent_variables :
    Let(neural_net_predict(gen_params, sampled_latent_variables), LAMBDA decoder_output :
    Let(bernoulli_log_prob(data, decoder_output), LAMBDA log_prob :
    Let(compute_KL(encoder_output), LAMBDA divergence :
        Mean(Vec([i \in 1..Len(data) |-> log_prob[i] - divergence[i]])))))))

\* ------------------------------------------------------------------------
\* Hyper-parameters and data of the script
\* ------------------------------------------------------------------------

latent_dim == 2
data_dim == 2
n_units == 2
n_layers == 0

MaxEpochs == 2
MaxN == 3
MaxBatch == 2

Repeat(val, n) == Vec([i \in 1..n |-> val])

gen_layer_sizes == <<latent_dim>> \o Repeat(n_units, n_layers) \o <<data_dim>>
rec_layer_sizes == <<data_dim>> \o Repeat(n_units, n_layers) \o <<latent_dim * 2>>

InitScale == 100

\* Adam constants in fixed point; epsilon is one unit in the last place
alpha == 10
beta1 == 9000
beta2 == 9990
epsilon == 1

num_images == 25
num_reconstruct == 10
num_interpolations == 5
num_points == 25

\* load_mnist: pixel intensities in [0, 1], one row per image
Pixel(i, j, k) == (((i * k + j) % 5)) * (Scale \div 4)

TrainImages(n) == Vec([i \in 1..n |-> Vec([j \in 1..data_dim |-> Pixel(i, j, 3)])])

test_images == Vec([i \in 1..num_reconstruct |-> Vec([j \in 1..data_dim |-> Pixel(i, j, 2)])])

unflat_params(flattened) ==
    << UnflattenNet(gen_layer_sizes, flattened, 0),
       UnflattenNet(rec_layer_sizes, flattened, NetSize(gen_layer_sizes)) >>

\* int(np.ceil(n / b))
CeilDiv(n, b) == IF n % b = 0 THEN n \div b ELSE (n \div b) + 1

\* np.arange(lo, hi)
arange(lo, hi) == Vec([i \in 1..(IF hi > lo THEN hi - lo ELSE 0) |-> lo + i - 1])

Min(a, b) == IF a <= b THEN a ELSE b

\* line 210 with a forgotten stride: window n starts at row n
BatchOverlapping(n_rows, size, nb) == arange(nb, Min(n_rows, nb + size))

\* line 210: the row indices of mini-batch number nb
Batch(n_rows, size, nb) == arange(size * nb, Min(n_rows, size * (nb + 1)))

\* draws one objective call takes from the stream: the uniform thresholds of
\* the binarization, then the noise of the reparametrization
DrawsPerCall(rows) == rows * data_dim + rows * latent_dim

\* objective(): binarize the rows of the current batch, evaluate the bound
objective(flattened_combined_params, train_images, batch_idx, pos) ==
    LET rows == Len(batch_idx)
    IN Let(unflat_params(flattened_combined_params), LAMBDA combined_params :
       Let(Vec([i \in 1..rows |->
               Vec([j \in 1..data_dim |->
                   IF train_images[batch_idx[i] + 1][j]
                        > Uniform(pos + (i - 1) * data_dim + (j - 1))
                   THEN Scale ELSE 0])]), LAMBDA images :
           vae_lower_bound(combined_params[1], combined_params[2], images,
                           pos + rows * data_dim)))

\* vec with d added to coordinate k
Shift(vec, k, d) == Vec([j \in 1..Len(vec) |-> IF j = k THEN vec[j] + d ELSE vec[j]])

GradStep == Scale \div 10

\* grad(objective): the derivative of one noisy evaluation of objective, the
\* one that takes its draws at pos; in every coordinate the central
\* difference quotient over 2 * GradStep
objective_grad(flattened_combined_params, train_images, batch_idx, pos) ==
    Vec([k \in 1..Len(flattened_combined_params) |->
        Div(objective(Shift(flattened_combined_params, k, GradStep),
                      train_images, batch_idx, pos)
              - objective(Shift(flattened_combined_params, k, -GradStep),
                          train_images, batch_idx, pos),
            2 * GradStep)])

RECURSIVE Pow(_, _)
Pow(b, e) == IF e = 0 THEN Scale ELSE Let(Pow(b, e - 1), LAMBDA p : Mul(b, p))

\* line 215
AdamM(m_old, g) ==
    Vec([i \in 1..Len(m_old) |-> Mul(beta1, m_old[i]) + Mul(Scale - beta1, g[i])])

\* line 217; v is a vector of squares
AdamV(v_old, g) ==
    Vec([i \in 1..Len(v_old) |->
        MulWide(beta2, v_old[i]) + MulWide(Scale - beta2, g[i] * g[i])])

\* lines 219-222 with t incremented before its use
AdamParamsLateStep(theta, m_new, v_new, step) ==
    Vec([i \in 1..Len(theta) |->
        LET m_est == Div(m_new[i], Scale - Pow(beta1, step + 1))
            v_est == DivWide(v_new[i], Scale - Pow(beta2, step + 1))
        IN theta[i] + RDiv(alpha * m_est, Sqrt(v_est) + epsilon)])

\* lines 219-222
AdamParams(theta, m_new, v_new, step) ==
    Vec([i \in 1..Len(theta) |->
        LET m_est == Div(m_new[i], Scale - Pow(beta1, step))
            v_est == DivWide(v_new[i], Scale - Pow(beta2, step))
        IN theta[i] + RDiv(alpha * m_est, Sqrt(v_est) + epsilon)])

\* np.linspace with endpoint = False
linspaceOpen(start, stop, num) ==
    Vec([k \in 1..num |-> start + RDiv((k - 1) * (stop - start), num)])

\* np.linspace(start, stop, num): num points, the last one set to stop
linspace(start, stop, num) ==
    Vec([k \in 1..num |->
        IF k = num THEN stop ELSE start + RDiv((k - 1) * (stop - start), num - 1)])

\* ------------------------------------------------------------------------
\* State of the script
\* ------------------------------------------------------------------------

VARIABLES
    num_epochs, N, batch_size,        \* the run's configuration
    pc,                               \* position in the script
    epoch, n_batch, batch,            \* loop variables
    flattened_current_params, m, v, t,
    elbo_est,
    rng,                              \* draws taken from the random stream
    reported,                         \* the ELBO printed for each epoch
    evals,                            \* log of the calls of objective
    updates,                          \* log of the Adam updates
    gen_params, rec_params,           \* the trained parameters (line 232)
    saved,                            \* log of the calls of save_images
    latents,                          \* the interpolations of each pair
    i,                                \* index of the interpolation loop
    call, ret                         \* a call of one function on its own

train_vars == <<flattened_current_params, m, v, t>>
loop_vars == <<epoch, n_batch, batch, elbo_est>>
conf_vars == <<num_epochs, N, batch_size>>
log_vars == <<reported, evals, updates>>
post_vars == <<gen_params, rec_params, saved, latents, i>>
fn_vars == <<call, ret>>

vars == <<conf_vars, pc, loop_vars, train_vars, rng, log_vars, post_vars, fn_vars>>

flattened_combined_params_init ==
    flatten(<< init_net_params(gen_layer_sizes, InitScale, 0),
               init_net_params(rec_layer_sizes, InitScale, NetSize(gen_layer_sizes)) >>)

\* lines 132-200, for a given epoch count, dataset size and batch size
Start(E, n, B) ==
    /\ num_epochs = E
    /\ N = n
    /\ batch_size = B
    /\ pc = "epoch"
    /\ epoch = 0
    /\ n_batch = 0
    /\ batch = <<>>
    /\ flattened_current_params = flattened_combined_params_init
    /\ m = Repeat(0, Len(flattened_combined_params_init))
    /\ v = Repeat(0, Len(flattened_combined_params_init))
    /\ t = 1
    /\ elbo_est = 0
    /\ rng = NetSize(gen_layer_sizes) + NetSize(rec_layer_sizes)
    /\ reported = <<>>
    /\ evals = <<>>
    /\ updates = <<>>
    /\ gen_params = <<>>
    /\ rec_params = <<>>
    /\ saved = <<>>
    /\ latents = <<>>
    /\ i = 0

Init ==
    /\ \E E \in 0..MaxEpochs, n \in 1..MaxN, B \in 1..MaxBatch : Start(E, n, B)
    /\ call = "none"
    /\ ret = "none"

\* line 204 with line 206 left out: the accumulator is never reset
BeginEpochNoReset ==
    /\ pc = "epoch"
    /\ epoch < num_epochs
    /\ n_batch' = 0
    /\ pc' = "batch"
    /\ UNCHANGED <<conf_vars, epoch, batch, elbo_est, train_vars, rng, log_vars, post_vars,
                   fn_vars>>

\* line 204 running one epoch too many
BeginEpochExtra ==
    /\ pc = "epoch"
    /\ epoch <= num_epochs
    /\ elbo_est' = 0
    /\ n_batch' = 0
    /\ pc' = "batch"
    /\ UNCHANGED <<conf_vars, epoch, batch, train_vars, rng, log_vars, post_vars, fn_vars>>

\* line 204 entering the loop body, line 206
BeginEpoch ==
    /\ pc = "epoch"
    /\ epoch < num_epochs
    /\ elbo_est' = 0
    /\ n_batch' = 0
    /\ pc' = "batch"
    /\ UNCHANGED <<conf_vars, epoch, batch, train_vars, rng, log_vars, post_vars, fn_vars>>

\* lines 208-226: one mini-batch
MiniBatch ==
    /\ pc = "batch"
    /\ n_batch < CeilDiv(N, batch_size)
    /\ \E new_batch \in {Batch(N, batch_size, n_batch)} :
       \E train_images \in {TrainImages(N)} :
       \E grad \in {objective_grad(flattened_current_params, train_images, new_batch, rng)} :
       \E grad_value \in {objective(flattened_current_params, train_images, new_batch, rng)} :
       \E new_m \in {AdamM(m, grad)} :
       \E new_v \in {AdamV(v, grad)} :
       \E new_params \in {AdamParams(flattened_current_params, new_m, new_v, t)} :
       \E draws \in {DrawsPerCall(Len(new_batch))} :
       \E value \in {objective(new_params, train_images, new_batch, rng + draws)} :
            /\ batch' = new_batch
            /\ m' = new_m
            /\ v' = new_v
            /\ flattened_current_params' = new_params
            /\ elbo_est' = elbo_est + value
            /\ t' = t + 1
            /\ rng' = rng + 2 * draws
            /\ evals' = evals \o
                 << [use |-> "grad", epoch |-> epoch, n_batch |-> n_batch,
                     batch |-> new_batch, params |-> flattened_current_params,
                     rng |-> rng, draws |-> draws, value |-> grad_value],
                    [use |-> "value", epoch |-> epoch, n_batch |-> n_batch,
                     batch |-> new_batch, params |-> new_params,
                     rng |-> rng + draws, draws |-> draws, value |-> value] >>
            /\ updates' = Append(updates,
                 [t |-> t, epoch |-> epoch, n_batch |-> n_batch, batch |-> new_batch,
                  grad |-> grad, m |-> new_m, v |-> new_v,
                  before |-> flattened_current_params, after |-> new_params])
    /\ n_batch' = n_batch + 1
    /\ UNCHANGED <<conf_vars, pc, epoch, reported, post_vars, fn_vars>>

\* line 228, and the step of the epoch loop
EndEpoch ==
    /\ pc = "batch"
    /\ n_batch >= CeilDiv(N, batch_size)
    /\ reported' = Append(reported, RDiv(elbo_est, CeilDiv(N, batch_size)))
    /\ epoch' = epoch + 1
    /\ pc' = "epoch"
    /\ UNCHANGED <<conf_vars, n_batch, batch, elbo_est, train_vars, rng, evals, updates,
                   post_vars, fn_vars>>

\* line 232 unflattening the initial vector instead of the trained one
EndTrainingInitParams ==
    /\ pc = "epoch"
    /\ epoch >= num_epochs
    /\ gen_params' = unflat_params(flattened_combined_params_init)[1]
    /\ rec_params' = unflat_params(flattened_combined_params_init)[2]
    /\ pc' = "prior"
    /\ UNCHANGED <<conf_vars, loop_vars, train_vars, rng, log_vars, saved, latents, i, fn_vars>>

\* the epoch loop is exhausted; line 232
EndTraining ==
    /\ pc = "epoch"
    /\ epoch >= num_epochs
    /\ gen_params' = unflat_params(flattened_current_params)[1]
    /\ rec_params' = unflat_params(flattened_current_params)[2]
    /\ pc' = "prior"
    /\ UNCHANGED <<conf_vars, loop_vars, train_vars, rng, log_vars, saved, latents, i, fn_vars>>

\* lines 235-243
PriorSampling ==
    /\ pc = "prior"
    /\ \E z \in {RandnMat(num_images, latent_dim, rng)} :
       \E x \in {neural_net_predict(gen_params, z)} :
       \E images \in {MapMat(sigmoid, x)} :
          saved' = Append(saved, [file |-> "3_1", images |-> images])
    /\ rng' = rng + num_images * latent_dim
    /\ pc' = "reconstruct"
    /\ UNCHANGED <<conf_vars, loop_vars, train_vars, log_vars, gen_params, rec_params,
                   latents, i, fn_vars>>

\* lines 247-258
Reconstruction ==
    /\ pc = "reconstruct"
    /\ \E images_to_reconstruct \in {SubSeq(test_images, 1, num_reconstruct)} :
       \E encoder_output \in {neural_net_predict(rec_params, images_to_reconstruct)} :
       \E z2 \in {sample_latent_variables_from_posterior(encoder_output, rng)} :
       \E x2 \in {neural_net_predict(gen_params, z2)} :
       \E images_reconstructed \in {MapMat(sigmoid, x2)} :
       \E images_to_save \in {images_to_reconstruct \o images_reconstructed} :
          saved' = Append(saved, [file |-> "3_2", images |-> images_to_save])
    /\ rng' = rng + num_reconstruct * latent_dim
    /\ i' = 0
    /\ pc' = "interpolate"
    /\ UNCHANGED <<conf_vars, loop_vars, train_vars, log_vars, gen_params, rec_params,
                   latents, fn_vars>>

\* line 282
Interpolate(mean1, mean2) ==
    Let(linspace(0, Scale, num_points), LAMBDA ss :
        Vec([k \in 1..Len(ss) |->
            Vec([d \in 1..Len(mean1) |->
                Mul(mean2[d], ss[k]) + Mul(Scale - ss[k], mean1[d])])]))

\* lines 266-287: one pass of the interpolation loop; an image is a vector,
\* and so is the encoder's output for it
Interpolation ==
    /\ pc = "interpolate"
    /\ i < num_interpolations
    /\ \E image1 \in {test_images[i * 2 + 1]} :
       \E image2 \in {test_images[i * 2 + 2]} :
       \E encoder_output1 \in {neural_net_predict(rec_params, <<image1>>)[1]} :
       \E encoder_output2 \in {neural_net_predict(rec_params, <<image2>>)[1]} :
       \E D1 \in {Len(encoder_output1) \div 2} :
       \E mean1 \in {SubSeq(encoder_output1, 1, D1)} :
       \E D2 \in {Len(encoder_output2) \div 2} :
       \E mean2 \in {SubSeq(encoder_output2, 1, D2)} :
       \E interpolations \in {Interpolate(mean1, mean2)} :
       \E interpolated_images \in {neural_net_predict(gen_params, interpolations)} :
          /\ saved' = Append(saved, [file |-> <<"interpolation", i>>,
                                     images |-> interpolated_images])
          /\ latents' = Append(latents, interpolations)
    /\ i' = i + 1
    /\ UNCHANGED <<conf_vars, pc, loop_vars, train_vars, rng, log_vars, gen_params,
                   rec_params, fn_vars>>

\* the interpolation loop is exhausted: the script ends
Finish ==
    /\ pc = "interpolate"
    /\ i >= num_interpolations
    /\ pc' = "done"
    /\ UNCHANGED <<conf_vars, loop_vars, train_vars, rng, log_vars, post_vars, fn_vars>>

Next ==
    \/ BeginEpoch
    \/ MiniBatch
    \/ EndEpoch
    \/ EndTraining
    \/ PriorSampling
    \/ Reconstruction
    \/ Interpolation
    \/ Finish

Spec == Init /\ [][Next]_vars

\* the script is one sequential process: it always takes its next step
FairSpec == Spec /\ WF_vars(Next)

\* ------------------------------------------------------------------------
\* One function called on its own, on inputs drawn from bounded sets
\* ------------------------------------------------------------------------

MaxLayers == 2
MaxWidth == 2
MaxRows == 3
MaxLatent == 3
MaxSeed == 4

\* the script's variables stay in one start state while a function is called
Idle == Start(0, 1, 1)

\* layer size lists of 1..MaxLayers layers
LayerSizeLists == UNION {[1..(n + 1) -> 1..MaxWidth] : n \in 1..MaxLayers}

\* rows x cols matrix number seed: entries between -1.5 and 2.5
InputMat(rows, cols, seed) == MapMat(LAMBDA r : 2 * r, RandnMat(rows, cols, seed))

InitNN ==
    /\ Idle
    /\ \E sizes \in LayerSizeLists, seed \in 0..MaxSeed, rows \in 1..MaxRows,
          seed2 \in 0..MaxSeed :
         call = [fn |-> "neural_net_predict",
                 params |-> init_net_params(Vec(sizes), Scale, seed),
                 inputs |-> InputMat(rows, sizes[1], seed2)]
    /\ ret = "pending"

CallNeuralNetPredict ==
    /\ call.fn = "neural_net_predict"
    /\ ret = "pending"
    /\ ret' = neural_net_predict(call.params, call.inputs)
    /\ UNCHANGED <<conf_vars, pc, loop_vars, train_vars, rng, log_vars, post_vars, call>>

SpecNN == InitNN /\ [][CallNeuralNetPredict]_vars

\* rows x cols targets number seed: entries among 0, 1/2, 1
TargetMat(rows, cols, seed) ==
    Vec([r \in 1..rows |->
        Vec([c \in 1..cols |-> ((seed + r * cols + c + (seed * r * c)) % 3) * (Scale \div 2)])])

InitBernoulli ==
    /\ Idle
    /\ \E rows \in 1..MaxRows, cols \in 1..MaxWidth, seed \in 0..MaxSeed,
          seed2 \in 0..MaxSeed :
         call = [fn |-> "bernoulli_log_prob",
                 targets |-> TargetMat(rows, cols, seed),
                 logits |-> InputMat(rows, cols, seed2)]
    /\ ret = "pending"

CallBernoulliLogProb ==
    /\ call.fn = "bernoulli_log_prob"
    /\ ret = "pending"
    /\ ret' = bernoulli_log_prob(call.targets, call.logits)
    /\ UNCHANGED <<conf_vars, pc, loop_vars, train_vars, rng, log_vars, post_vars, call>>

SpecBernoulli == InitBernoulli /\ [][CallBernoulliLogProb]_vars

\* encoder outputs: rows x 2L matrices with entries between -3/4 and 5/4, and
\* the all-zero matrix of every shape
InitKL ==
    /\ Idle
    /\ \E rows \in 1..MaxRows, L \in 1..MaxLatent :
         \/ \E seed \in 0..MaxSeed :
              call = [fn |-> "compute_KL", q |-> RandnMat(rows, 2 * L, seed)]
         \/ call = [fn |-> "compute_KL", q |-> Vec([r \in 1..rows |-> Repeat(0, 2 * L)])]
    /\ ret = "pending"

CallComputeKL ==
    /\ call.fn = "compute_KL"
    /\ ret = "pending"
    /\ ret' = compute_KL(call.q)
    /\ UNCHANGED <<conf_vars, pc, loop_vars, train_vars, rng, log_vars, post_vars, call>>

SpecKL == InitKL /\ [][CallComputeKL]_vars

\* ------------------------------------------------------------------------
\* Properties
\* ------------------------------------------------------------------------

\* the least k with k * b >= n
CeilRef(n, b) == CHOOSE k \in 0..n : k * b >= n /\ (k = 0 \/ (k - 1) * b < n)

Zeros(n) == [k \in 1..n |-> 0]

Abs(x) == IF x >= 0 THEN x ELSE -x

Last(s) == s[Len(s)]

TrainingOver == pc \notin {"epoch", "batch"}

\* the Adam update of the spec, element by element, with bias-correction
\* exponent k
ExpectedM(m_old, g) == [j \in 1..Len(g) |-> Mul(beta1, m_old[j]) + Mul(Scale - beta1, g[j])]

ExpectedV(v_old, g) ==
    [j \in 1..Len(g) |-> MulWide(beta2, v_old[j]) + MulWide(Scale - beta2, g[j] * g[j])]

ExpectedParams(theta, m_new, v_new, k) ==
    [j \in 1..Len(theta) |->
        theta[j] + RDiv(alpha * Div(m_new[j], Scale - Pow(beta1, k)),
                        Sqrt(DivWide(v_new[j], Scale - Pow(beta2, k))) + epsilon)]

\* C1: the optimizer starts as m = 0, v = 0, t = 1; every mini-batch
\* transition updates m, v and the parameter vector once and adds 1 to t, so
\* t >= 1, t = 1 + (completed mini-batch transitions), and update number k
\* uses bias-correction exponent k.
C1_SingleUpdatePerMiniBatch ==
    LET n == Len(flattened_combined_params_init)
    IN /\ t >= 1
       /\ t = 1 + Len(updates)
       /\ TrainingOver \/ Len(updates) = epoch * CeilRef(N, batch_size) + (IF pc = "batch" THEN n_batch ELSE 0)
       /\ Len(updates) = 0 =>
            /\ m = Zeros(n)
            /\ v = Zeros(n)
            /\ flattened_current_params = flattened_combined_params_init
       /\ Len(updates) > 0 =>
            /\ m = Last(updates).m
            /\ v = Last(updates).v
            /\ flattened_current_params = Last(updates).after
       /\ \A k \in 1..Len(updates) :
            LET u == updates[k]
                m_old == IF k = 1 THEN Zeros(n) ELSE updates[k - 1].m
                v_old == IF k = 1 THEN Zeros(n) ELSE updates[k - 1].v
                theta == IF k = 1 THEN flattened_combined_params_init
                                  ELSE updates[k - 1].after
            IN /\ u.t = k
               /\ u.before = theta
               /\ u.m = ExpectedM(m_old, u.grad)
               /\ u.v = ExpectedV(v_old, u.grad)
               /\ u.after = ExpectedParams(theta, u.m, u.v, k)

\* three updates have been made, each moving the parameters
C1_Witness ==
    /\ Len(updates) = 3
    /\ t = 4
    /\ \A k \in 1..3 : updates[k].after # updates[k].before

\* C2: for E >= 0 epochs, N >= 1 rows and batch size B >= 1 the training loop
\* reaches its end, after exactly E * ceil(N / B) mini-batch transitions, and
\* the inference routines run only then.
C2_TrainingTerminates ==
    /\ <>TrainingOver
    /\ [](TrainingOver => Len(updates) = num_epochs * CeilRef(N, batch_size))
    /\ [](Len(saved) > 0 => TrainingOver)

\* training has ended after 2 epochs of 2 mini-batches, the last one short
C2_Witness ==
    /\ TrainingOver
    /\ num_epochs = 2
    /\ N = 3
    /\ batch_size = 2
    /\ Len(updates) = 4

\* the batches of epoch e, in the order they were taken
RECURSIVE BatchesOf(_, _)
BatchesOf(log, e) ==
    IF log = <<>> THEN <<>>
    ELSE (IF Head(log).epoch = e THEN <<Head(log).batch>> ELSE <<>>) \o BatchesOf(Tail(log), e)

RECURSIVE Concat(_)
Concat(ss) == IF ss = <<>> THEN <<>> ELSE Head(ss) \o Concat(Tail(ss))

\* C3: within every epoch the successive mini-batches are non-empty and
\* contiguous, of at most batch_size rows, ascending and disjoint, and cover
\* rows 0..N-1 exactly once; only the last batch of an epoch may be short,
\* and no batch holds an index >= N.
C3_BatchesPartitionDataset ==
    \A e \in 0..epoch :
        LET bs == BatchesOf(updates, e)
            rows == Concat(bs)
        IN /\ \A k \in 1..Len(bs) :
                /\ Len(bs[k]) >= 1
                /\ Len(bs[k]) <= batch_size
                /\ \A j \in 1..Len(bs[k]) : bs[k][j] >= 0 /\ bs[k][j] < N
                /\ \A j \in 1..(Len(bs[k]) - 1) : bs[k][j + 1] = bs[k][j] + 1
                /\ Len(bs[k]) < batch_size => rows[Len(rows)] = N - 1 /\ k = Len(bs)
           /\ Len(rows) <= N
           /\ \A j \in 1..Len(rows) : rows[j] = j - 1
           /\ (e < epoch \/ TrainingOver) /\ e < num_epochs => Len(rows) = N

\* a finished epoch of two batches, a full one and a short one
C3_Witness ==
    /\ epoch >= 1
    /\ N = 3
    /\ batch_size = 2
    /\ BatchesOf(updates, 0) = << <<0, 1>>, <<2>> >>

\* C4: every image matrix handed to save_images has all its pixels in [0, 1].
C4_SavedImagesInUnitRange ==
    \A k \in 1..Len(saved) :
        \A r \in 1..Len(saved[k].images) :
            \A c \in 1..Len(saved[k].images[r]) :
                saved[k].images[r][c] >= 0 /\ saved[k].images[r][c] <= Scale

PostTraining == {"prior", "reconstruct", "interpolate", "done"}

TrainedVector ==
    IF updates = <<>> THEN flattened_combined_params_init ELSE Last(updates).after

\* C5: prior sampling, reconstruction and interpolation leave the parameter
\* vector and the optimizer state (m, v, t) as they are, and the generator
\* and recognition parameters they use are those of the last Adam update.
C5_InferenceReadOnly ==
    /\ [][(pc \in PostTraining) => UNCHANGED <<train_vars, gen_params, rec_params>>]_vars
    /\ [](pc \in PostTraining =>
            /\ flattened_current_params = TrainedVector
            /\ gen_params = UnflattenNet(gen_layer_sizes, TrainedVector, 0)
            /\ rec_params = UnflattenNet(rec_layer_sizes, TrainedVector,
                                         NetSize(gen_layer_sizes)))

\* the script has ended after training moved the parameters, all 7 images saved
C5_Witness ==
    /\ pc = "done"
    /\ Len(updates) >= 2
    /\ TrainedVector # flattened_combined_params_init
    /\ Len(saved) = 2 + num_interpolations

\* the posterior mean of test image number idx (from 0): the first half of
\* the encoder's output
PosteriorMean(idx) ==
    LET out == neural_net_predict(rec_params, <<test_images[idx + 1]>>)[1]
    IN SubSeq(out, 1, latent_dim)

\* C6: for pair p (test images 2p and 2p+1, p in 0..4) the interpolation has
\* 25 latent points at evenly spaced s in [0, 1], s * mean_B + (1 - s) *
\* mean_A of the posterior means; the first point is mean_A and the last is
\* mean_B exactly, so the first and last images are their decodes.
C6_InterpolationEndpoints ==
    /\ Len(latents) <= num_interpolations
    /\ pc = "done" => Len(latents) = 5
    /\ \A p \in 1..Len(latents) :
        LET mean_A == PosteriorMean(2 * (p - 1))
            mean_B == PosteriorMean(2 * (p - 1) + 1)
            points == latents[p]
            images == saved[2 + p].images
        IN /\ Len(points) = 25
           /\ points[1] = mean_A
           /\ points[25] = mean_B
           /\ \A k \in 1..25 : \A d \in 1..latent_dim :
                Abs(24 * points[k][d] - ((k - 1) * mean_B[d] + (25 - k) * mean_A[d])) <= 48
           /\ Len(images) = 25
           /\ images[1] = neural_net_predict(gen_params, <<mean_A>>)[1]
           /\ images[25] = neural_net_predict(gen_params, <<mean_B>>)[1]

\* all five pairs are interpolated, the first between two different means
C6_Witness ==
    /\ Len(latents) = 5
    /\ Len(updates) >= 1
    /\ PosteriorMean(0) # PosteriorMean(1)
    /\ latents[1][2] # latents[1][1]

\* the network of the spec: the pre-activation of layer k is the affine map
\* of the inputs (k = 1) or of the ReLU of the pre-activation of layer k - 1
RECURSIVE PreActivation(_, _, _)
PreActivation(params, inputs, k) ==
    LET below == IF k = 1 THEN inputs
                 ELSE LET pre == PreActivation(params, inputs, k - 1)
                      IN [r \in 1..Len(pre) |->
                            [c \in 1..Len(pre[r]) |-> IF pre[r][c] < 0 THEN 0 ELSE pre[r][c]]]
        W == params[k][1]
        b == params[k][2]
    IN Vec([r \in 1..Len(below) |->
          Vec([c \in 1..Len(b) |->
              SumSeq(Vec([q \in 1..Len(W) |-> Mul(below[r][q], W[q][c])])) + b[c]])])

C8_BernoulliCrossEntropy ==
    ret # "pending" =>
        /\ Len(ret) = Len(call.targets)
        /\ \A r \in 1..Len(ret) :
             LET row == Vec([c \in 1..Len(call.targets[r]) |->
                            LET p == sigmoid(call.logits[r][c])
                                target == call.targets[r][c]
                            IN Mul(target, Log(p)) + Mul(Scale - target, Log(Scale - p))])
             IN Abs(ret[r] - SumSeq(row)) <= 10 * Len(row)

RECURSIVE KLSum(_, _, _)
KLSum(row, L, d) ==
    IF d = 0 THEN 0
    ELSE KLSum(row, L, d - 1)
         + (Exp(2 * row[L + d]) + Mul(row[d], row[d]) - Scale - 2 * row[L + d])

\* C9: compute_KL of an N x 2L matrix of zeros is 0 for every row; in
\* general each row gives 0.5 * sum over the L dimensions of
\* exp(2 * log_std) + mean^2 - 1 - 2 * log_std, the first L columns being
\* the means and the last L the log-stds.
C9_KLClosedForm ==
    ret # "pending" =>
        /\ Len(ret) = Len(call.q)
        /\ \A r \in 1..Len(ret) :
             LET row == call.q[r]
                 L == Len(row) \div 2
             IN /\ ret[r] = Mul(Scale \div 2, KLSum(row, L, L))
                /\ (\A c \in 1..Len(row) : row[c] = 0) => ret[r] = 0

\* compute_KL was applied to three rows of zeros and returned three zeros
C9_Witness ==
    /\ ret # "pending"
    /\ Len(call.q) = 3
    /\ \A r \in 1..3 : \A c \in 1..Len(call.q[r]) : call.q[r][c] = 0
    /\ ret = <<0, 0, 0>>

\* the objective values of epoch e added up
RECURSIVE ValueSum(_, _)
ValueSum(log, e) ==
    IF log = <<>> THEN 0
    ELSE (IF Head(log).use = "value" /\ Head(log).epoch = e THEN Head(log).value ELSE 0)
         + ValueSum(Tail(log), e)

\* C10: every mini-batch transition evaluates the objective twice on the
\* same rows: for the gradient at the parameters before the update, then for
\* its value at the parameters after it, each with its own binarization and
\* noise draws; the ELBO printed for an epoch is the sum of the second
\* evaluations of that epoch over ceil(N / batch_size), the accumulator
\* starting from 0 in each epoch.
C10_TwoEvaluationsPerMiniBatch ==
    /\ Len(evals) = 2 * Len(updates)
    /\ \A k \in 1..Len(updates) :
         LET first == evals[2 * k - 1]
             second == evals[2 * k]
         IN /\ first.use = "grad"
            /\ second.use = "value"
            /\ first.batch = updates[k].batch
            /\ second.batch = updates[k].batch
            /\ first.params = updates[k].before
            /\ second.params = updates[k].after
            /\ first.draws = Len(first.batch) * (data_dim + latent_dim)
            /\ second.rng = first.rng + first.draws
            /\ second.value = objective(updates[k].after, TrainImages(N), updates[k].batch,
                                        second.rng)
    /\ Len(updates) > 0 =>
         LET first == evals[2 * Len(updates) - 1]
         IN Last(updates).grad
              = objective_grad(first.params, TrainImages(N), first.batch, first.rng)
    /\ \A j \in 1..(Len(evals) - 1) : evals[j].rng + evals[j].draws <= evals[j + 1].rng
    /\ \A e \in 1..Len(reported) :
         reported[e] = RDiv(ValueSum(evals, e - 1), CeilRef(N, batch_size))
    /\ pc = "batch" => elbo_est = ValueSum(evals, epoch)

\* two epochs were reported, the second over two mini-batches
C10_Witness ==
    /\ Len(reported) = 2
    /\ Len(evals) = 8
    /\ reported[2] = RDiv(evals[6].value + evals[8].value, 2)
    /\ evals[5].params # evals[6].params

====
